---------------------------- MODULE Spec2Model ----------------------------
(***************************************************************************)
(* A model of src/app.py: the formula evaluator (evaluate_formula), the    *)
(* bounds clamp (clamp_to_bounds), the game construction (create_game) and *)
(* the Monte Carlo loop (process_game_info).                               *)
(*                                                                         *)
(* Text is a sequence of one-character strings, so that str.replace, the   *)
(* `in` test, str.lower and the character allow-list are computed as the   *)
(* code computes them.  A Python number is a record [n, d, f]: the         *)
(* rational n/d in lowest terms (d > 0) and f = TRUE for a float, FALSE    *)
(* for an int.  The inputs keep to values whose decimal expansion ends and *)
(* whose magnitude str() prints positionally (no exponent), where rational *)
(* arithmetic and binary floating point agree.                             *)
(***************************************************************************)
EXTENDS Integers, Sequences, FiniteSets, TLC

(***************************************************************************)
(* Text                                                                    *)
(***************************************************************************)

UpperLetters ==
  <<"A","B","C","D","E","F","G","H","I","J","K","L","M",
    "N","O","P","Q","R","S","T","U","V","W","X","Y","Z">>

LowerLetters ==
  <<"a","b","c","d","e","f","g","h","i","j","k","l","m",
    "n","o","p","q","r","s","t","u","v","w","x","y","z">>

\* str.lower on one character.
LowerChar(c) ==
  IF \E i \in 1..26 : UpperLetters[i] = c
  THEN LowerLetters[CHOOSE i \in 1..26 : UpperLetters[i] = c]
  ELSE c

\* str.lower
Lower(s) == [i \in 1..Len(s) |-> LowerChar(s[i])]

\* s[k:] of Python, for 0 <= k
Drop(s, k) == SubSeq(s, k + 1, Len(s))

\* s.startswith(p)
StartsWith(s, p) == Len(p) <= Len(s) /\ SubSeq(s, 1, Len(p)) = p

\* s.endswith(p)
EndsWith(s, p) ==
  Len(p) <= Len(s) /\ SubSeq(s, Len(s) - Len(p) + 1, Len(s)) = p

\* sub in s
Contains(s, sub) == \E k \in 0..(Len(s) - Len(sub)) : StartsWith(Drop(s, k), sub)

\* s.replace(old, new): every non-overlapping occurrence, leftmost first.  An
\* empty `old` matches before every character and at the end.
RECURSIVE Replace(_, _, _)
Replace(s, old, new) ==
  IF old = <<>>
  THEN IF s = <<>> THEN new
       ELSE new \o <<s[1]>> \o Replace(Tail(s), old, new)
  ELSE IF Len(s) < Len(old) THEN s
  ELSE IF StartsWith(s, old)
       THEN new \o Replace(Drop(s, Len(old)), old, new)
       ELSE <<s[1]>> \o Replace(Tail(s), old, new)

(***************************************************************************)
(* Numbers                                                                 *)
(***************************************************************************)

Abs(k) == IF k < 0 THEN -k ELSE k

RECURSIVE GCD(_, _)
GCD(a, b) == IF b = 0 THEN a ELSE GCD(b, a % b)

\* The number n/d (d # 0) in lowest terms with a positive denominator.
Num(n, d, f) ==
  LET g == GCD(Abs(n), Abs(d))
      s == IF d < 0 THEN -1 ELSE 1
  IN  [n |-> (s * n) \div g, d |-> (s * d) \div g, f |-> f]

\* The float k.0 and the int k.
PyFloat(k) == [n |-> k, d |-> 1, f |-> TRUE]
PyInt(k) == [n |-> k, d |-> 1, f |-> FALSE]

\* float(x)
ToFloat(x) == [x EXCEPT !.f = TRUE]

NumLt(a, b) == a.n * b.d < b.n * a.d
NumLe(a, b) == a.n * b.d <= b.n * a.d
NumEq(a, b) == a.n * b.d = b.n * a.d

NumAdd(a, b) == Num(a.n * b.d + b.n * a.d, a.d * b.d, a.f \/ b.f)
NumSub(a, b) == Num(a.n * b.d - b.n * a.d, a.d * b.d, a.f \/ b.f)
NumMul(a, b) == Num(a.n * b.n, a.d * b.d, a.f \/ b.f)
NumNeg(a)    == [a EXCEPT !.n = -a.n]
\* a / b for b # 0: true division always gives a float.
NumDiv(a, b) == Num(a.n * b.d, a.d * b.n, TRUE)

\* The builtins max(a, b) and min(a, b): the first argument unless the second
\* is strictly greater (smaller).
PyMax(a, b) == IF NumLt(a, b) THEN b ELSE a
PyMin(a, b) == IF NumLt(b, a) THEN b ELSE a

DigitChars == <<"0","1","2","3","4","5","6","7","8","9">>
IsDigit(c) == \E i \in 1..10 : DigitChars[i] = c
DigitVal(c) == (CHOOSE i \in 1..10 : DigitChars[i] = c) - 1

\* The decimal digits of a natural number.
RECURSIVE Digits(_)
Digits(k) ==
  IF k < 10 THEN <<DigitChars[k + 1]>>
  ELSE Digits(k \div 10) \o <<DigitChars[(k % 10) + 1]>>

\* The digits after the decimal point of r/d (0 <= r < d), by long division,
\* at most `left` of them.
RECURSIVE FracDigits(_, _, _)
FracDigits(r, d, left) ==
  IF r = 0 \/ left = 0 THEN <<>>
  ELSE <<DigitChars[((10 * r) \div d) + 1]>> \o FracDigits((10 * r) % d, d, left - 1)

\* str(x): an int prints its digits, a float prints at least one digit after
\* the point ("3.0", "0.25", "-1.5").
Str(x) ==
  LET a    == Abs(x.n)
      sign == IF x.n < 0 THEN <<"-">> ELSE <<>>
      frac == FracDigits(a % x.d, x.d, 16)
  IN  IF x.f
      THEN sign \o Digits(a \div x.d) \o <<".">> \o (IF frac = <<>> THEN <<"0">> ELSE frac)
      ELSE sign \o Digits(a \div x.d)

(***************************************************************************)
(* eval() on a string of the allow-list's characters: Python's arithmetic  *)
(* expressions over int and float literals, unary and binary + and -, *    *)
(* and /, and parentheses.  The power and floor-division operators (two    *)
(* adjacent * or /), the empty tuple "()" and a call "1(2)" are not        *)
(* modelled; no formula of the model holds them and substitution only      *)
(* inserts numerals.  A syntax error is found at                           *)
(* compile time, before any division is carried out, so a division by zero *)
(* is carried through the parse as a number with denominator 0 and raised  *)
(* only once the whole string has parsed.                                  *)
(***************************************************************************)

Exc(type, msg) == [type |-> type, msg |-> msg]

SyntaxErr == [ok |-> FALSE, exc |-> Exc("SyntaxError", <<"invalid syntax">>)]

\* The pending ZeroDivisionError of a / b with b = 0.
DivZero(a, b) == [n |-> 0, d |-> 0, f |-> a.f \/ b.f]
IsDivZero(x) == x.d = 0

\* Operands are evaluated left to right: the first pending error wins.
BinOp(op, a, b) ==
  IF IsDivZero(a) THEN a
  ELSE IF IsDivZero(b) THEN b
  ELSE CASE op = "+" -> NumAdd(a, b)
         [] op = "-" -> NumSub(a, b)
         [] op = "*" -> NumMul(a, b)
         [] op = "/" -> IF b.n = 0 THEN DivZero(a, b) ELSE NumDiv(a, b)

RECURSIVE SkipSpaces(_)
SkipSpaces(s) == IF s # <<>> /\ s[1] = " " THEN SkipSpaces(Tail(s)) ELSE s

\* The length of the longest prefix of s made of digits.
RECURSIVE LeadingDigits(_)
LeadingDigits(s) ==
  IF s # <<>> /\ IsDigit(s[1]) THEN 1 + LeadingDigits(Tail(s)) ELSE 0

RECURSIVE DigitsValue(_)
DigitsValue(ds) ==
  IF ds = <<>> THEN 0
  ELSE 10 * DigitsValue(SubSeq(ds, 1, Len(ds) - 1)) + DigitVal(ds[Len(ds)])

RECURSIVE Pow10(_)
Pow10(k) == IF k = 0 THEN 1 ELSE 10 * Pow10(k - 1)

\* An int literal (digits, no leading zero unless it is zero) or a float
\* literal (digits "." [digits] or "." digits) at the head of s.
ParseNumber(s) ==
  LET k1       == LeadingDigits(s)
      afterInt == Drop(s, k1)
      hasPoint == afterInt # <<>> /\ afterInt[1] = "."
      k2       == IF hasPoint THEN LeadingDigits(Tail(afterInt)) ELSE 0
      intPart  == SubSeq(s, 1, k1)
      fracPart == IF hasPoint THEN SubSeq(afterInt, 2, k2 + 1) ELSE <<>>
  IN  IF k1 = 0 /\ k2 = 0 THEN SyntaxErr
      ELSE IF hasPoint
      THEN [ok |-> TRUE,
            val |-> Num(DigitsValue(intPart \o fracPart), Pow10(k2), TRUE),
            rest |-> Drop(afterInt, k2 + 1)]
      ELSE IF k1 > 1 /\ s[1] = "0" /\ DigitsValue(intPart) # 0 THEN SyntaxErr
      ELSE [ok |-> TRUE, val |-> PyInt(DigitsValue(intPart)), rest |-> afterInt]

\* Binding strength: a prefix sign binds tighter than * and /, which bind
\* tighter than binary + and -; an open parenthesis is never reduced.
Prec(op) ==
  CASE op = "(" -> 0
    [] op \in {"+", "-"} -> 1
    [] op \in {"*", "/"} -> 2
    [] op \in {"u+", "u-"} -> 3

\* The value stack after the operator op has consumed its operands.
ApplyTop(vals, op) ==
  LET k == Len(vals)
  IN  CASE op = "u-" -> [vals EXCEPT ![k] = NumNeg(vals[k])]
        [] op = "u+" -> vals
        [] OTHER -> Append(SubSeq(vals, 1, k - 2), BinOp(op, vals[k - 1], vals[k]))

\* Carry out the operators on top of the stack that bind at least as
\* tightly as p (left to right among equals).
RECURSIVE Reduce(_, _, _)
Reduce(vals, ops, p) ==
  IF ops # <<>> /\ Prec(ops[Len(ops)]) >= p
  THEN Reduce(ApplyTop(vals, ops[Len(ops)]), SubSeq(ops, 1, Len(ops) - 1), p)
  ELSE [vals |-> vals, ops |-> ops]

\* The parse, left to right over the characters, with a stack of values and
\* a stack of pending operators; `operand` says that an operand (a number, a
\* sign or an open parenthesis) must come next.
RECURSIVE Parse(_, _, _, _)
Parse(s0, vals, ops, operand) ==
  LET s == SkipSpaces(s0)
  IN  IF s = <<>>
      THEN IF operand THEN SyntaxErr
           ELSE LET r == Reduce(vals, ops, 1)
                IN  IF r.ops # <<>> THEN SyntaxErr
                    ELSE [ok |-> TRUE, val |-> r.vals[1]]
      ELSE IF operand
      THEN IF IsDigit(s[1]) \/ s[1] = "."
           THEN LET num == ParseNumber(s)
                IN  IF num.ok THEN Parse(num.rest, Append(vals, num.val), ops, FALSE)
                    ELSE num
           ELSE IF s[1] = "-" THEN Parse(Tail(s), vals, Append(ops, "u-"), TRUE)
           ELSE IF s[1] = "+" THEN Parse(Tail(s), vals, Append(ops, "u+"), TRUE)
           ELSE IF s[1] = "(" THEN Parse(Tail(s), vals, Append(ops, "("), TRUE)
           ELSE SyntaxErr
      ELSE IF s[1] \in {"+", "-", "*", "/"}
           THEN LET r == Reduce(vals, ops, Prec(s[1]))
                IN  Parse(Tail(s), r.vals, Append(r.ops, s[1]), TRUE)
           ELSE IF s[1] = ")"
           THEN LET r == Reduce(vals, ops, 1)
                IN  IF r.ops = <<>> THEN SyntaxErr
                    ELSE Parse(Tail(s), r.vals, SubSeq(r.ops, 1, Len(r.ops) - 1), FALSE)
           ELSE SyntaxErr

\* eval(s): the value, or the exception raised.
PyEval(s) ==
  LET r == Parse(s, <<>>, <<>>, TRUE)
  IN  IF ~r.ok THEN r
      ELSE IF IsDivZero(r.val)
      THEN [ok |-> FALSE,
            exc |-> Exc("ZeroDivisionError",
                        <<IF r.val.f THEN "float division by zero"
                          ELSE "division by zero">>)]
      ELSE [ok |-> TRUE, val |-> r.val]

(***************************************************************************)
(* clamp_to_bounds                                                         *)
(***************************************************************************)

\* A clamp that forgets the upper bound.
clamp_from_below(value, min_val_, max_val_) == PyMax(min_val_, value)

clamp_to_bounds(value, min_val_, max_val_) == PyMax(min_val_, PyMin(max_val_, value))

(***************************************************************************)
(* evaluate_formula                                                        *)
(*                                                                         *)
(* A variable definition is a record [variableNumber, min, max, stdev,     *)
(* desiredEffect, weight]; weight is <<>> when the key is absent and <<w>> *)
(* otherwise.  sampled_values, a dict, is the sequence of its items        *)
(* [key, value] in insertion order.                                        *)
(***************************************************************************)

txt_weight == <<"_", "w", "e", "i", "g", "h", "t">>
txt_stnd == <<"_", "s", "t", "n", "d">>
txt_Stnd == <<"_", "S", "t", "n", "d">>
txt_Val == <<"_", "V", "a", "l">>
txt_positive == <<"p", "o", "s", "i", "t", "i", "v", "e">>
txt_negative == <<"n", "e", "g", "a", "t", "i", "v", "e">>

\* The weight used when a variable declares none.
default_weight == Num(1, 2, TRUE)

\* var.get('weight', 0.5)
WeightOf(var) == IF var.weight = <<>> THEN default_weight ELSE var.weight[1]

\* The loop that replaces the weight tokens, one variable after the other.
RECURSIVE ReplaceWeights(_, _)
ReplaceWeights(eval_formula, variables_data) ==
  IF variables_data = <<>> THEN eval_formula
  ELSE LET var      == Head(variables_data)
           var_name == var.variableNumber
           weight   == WeightOf(var)
           e1 == Replace(eval_formula, var_name \o txt_weight, Str(weight))
           e2 == Replace(e1, Lower(var_name) \o txt_weight, Str(weight))
       IN  ReplaceWeights(e2, Tail(variables_data))

\* The first definition whose variableNumber is base_var: <<def>>, or <<>>.
RECURSIVE FindVarDef(_, _)
FindVarDef(variables_data, base_var) ==
  IF variables_data = <<>> THEN <<>>
  ELSE IF Head(variables_data).variableNumber = base_var
       THEN <<Head(variables_data)>>
       ELSE FindVarDef(Tail(variables_data), base_var)

\* Whether the formula asks for the standardized value of base_var.
NeedsStandardization(formula, base_var) ==
  \/ Contains(formula, base_var \o txt_stnd)
  \/ Contains(formula, base_var \o txt_Stnd)
  \/ Contains(formula, Lower(base_var) \o txt_stnd)

\* Standardization without the final clamp to [0, 1].
StandardizeUnclamped(value, var_def) ==
  LET min_val == ToFloat(var_def.min)
      max_val == ToFloat(var_def.max)
      range == NumSub(max_val, min_val)
  IN  IF range.n = 0
      THEN [ok |-> FALSE,
            exc |-> Exc("ZeroDivisionError", <<"float division by zero">>)]
      ELSE [ok |-> TRUE,
            val |-> IF Lower(var_def.desiredEffect) = txt_negative
                    THEN NumDiv(NumSub(max_val, value), range)
                    ELSE NumDiv(NumSub(value, min_val), range)]

\* The standardized value of `value` under var_def, clamped to [0, 1]; the
\* division raises when max = min.
Standardize(value, var_def) ==
  LET min_val == ToFloat(var_def.min)
      max_val == ToFloat(var_def.max)
      desired_effect == var_def.desiredEffect
      range == NumSub(max_val, min_val)
      raw == IF Lower(desired_effect) = txt_positive
             THEN NumDiv(NumSub(value, min_val), range)
             ELSE IF Lower(desired_effect) = txt_negative
             THEN NumDiv(NumSub(max_val, value), range)
             ELSE NumDiv(NumSub(value, min_val), range)
  IN  IF range.n = 0
      THEN [ok |-> FALSE,
            exc |-> Exc("ZeroDivisionError", <<"float division by zero">>)]
      ELSE [ok |-> TRUE, val |-> PyMax(PyFloat(0), PyMin(PyFloat(1), raw))]

\* The three replacements of the standardization token of base_var by `text`.
ReplaceStnd(eval_formula, base_var, text) ==
  LET e1 == Replace(eval_formula, base_var \o txt_stnd, text)
      e2 == Replace(e1, base_var \o txt_Stnd, text)
  IN  Replace(e2, Lower(base_var) \o txt_stnd, text)

\* The two replacements of the raw-value tokens of base_var.
ReplaceVal(eval_formula, base_var, value) ==
  Replace(Replace(eval_formula, base_var \o txt_Val, Str(value)), base_var, Str(value))

\* One iteration of the loop over sampled_values.items().
SubstituteVariable(eval_formula, var_name, value, formula, player_suffix, variables_data) ==
  LET tag == <<"_">> \o player_suffix
      base_var == Replace(var_name, tag, <<>>)
      var_def == FindVarDef(variables_data, base_var)
  IN  IF ~EndsWith(var_name, tag) THEN [ok |-> TRUE, text |-> eval_formula]
      ELSE IF NeedsStandardization(formula, base_var)
      THEN IF var_def # <<>>
           THEN LET st == Standardize(value, var_def[1])
                IN  IF st.ok
                    THEN [ok |-> TRUE,
                          text |-> ReplaceStnd(eval_formula, base_var, Str(st.val))]
                    ELSE st
           ELSE [ok |-> TRUE, text |-> ReplaceStnd(eval_formula, base_var, Str(value))]
      ELSE [ok |-> TRUE, text |-> ReplaceVal(eval_formula, base_var, value)]

\* The loop over sampled_values.items(): the formula after it, or the
\* exception that broke it off.
RECURSIVE ReplaceValues(_, _, _, _, _)
ReplaceValues(eval_formula, items, formula, player_suffix, variables_data) ==
  IF items = <<>> THEN [ok |-> TRUE, text |-> eval_formula]
  ELSE LET r == SubstituteVariable(eval_formula, items[1].key, items[1].value,
                                   formula, player_suffix, variables_data)
       IN  IF r.ok
           THEN ReplaceValues(r.text, Tail(items), formula, player_suffix, variables_data)
           ELSE r

\* An allow-list that also lets identifier characters through.
allowed_chars_with_identifiers ==
  {"0", "1", "2", "3", "4", "5", "6", "7", "8", "9",
   "+", "-", "*", "/", "(", ")", ".", " ",
   "_", "v", "V", "a", "l"}

allowed_chars ==
  {"0", "1", "2", "3", "4", "5", "6", "7", "8", "9",
   "+", "-", "*", "/", "(", ")", ".", " "}

\* all(c in allowed_chars for c in eval_formula)
AllAllowed(eval_formula) == \A i \in 1..Len(eval_formula) : eval_formula[i] \in allowed_chars

InvalidCharacters(formula) ==
  Exc("ValueError", <<"Formula contains invalid characters: ", formula>>)

\* The handler of evaluate_formula: whatever was raised is raised again as a
\* plain Exception whose message quotes the formula and str(e).
Reraise(formula, e) ==
  Exc("Exception", <<"Error evaluating formula '", formula, "': ">> \o e.msg)

\* return float(result), or the handler's exception, for eval()'s outcome.
Returned(formula, res) ==
  IF res.ok THEN [ok |-> TRUE, val |-> ToFloat(res.val)]
  ELSE [ok |-> FALSE, exc |-> Reraise(formula, res.exc)]

\* The allow-list test and eval() on the outcome of the substitution loops.
CheckAndEval(formula, subst) ==
  IF ~subst.ok THEN [ok |-> FALSE, exc |-> Reraise(formula, subst.exc)]
  ELSE IF ~AllAllowed(subst.text)
  THEN [ok |-> FALSE, exc |-> Reraise(formula, InvalidCharacters(formula))]
  ELSE Returned(formula, PyEval(subst.text))

\* evaluate_formula as a whole: [ok |-> TRUE, val] or [ok |-> FALSE, exc].
evaluate_formula(formula, sampled_values, player_suffix, variables_data) ==
  CheckAndEval(formula,
               ReplaceValues(ReplaceWeights(formula, variables_data), sampled_values,
                             formula, player_suffix, variables_data))

(***************************************************************************)
(* State                                                                   *)
(***************************************************************************)

VARIABLES
  \* evaluate_formula: its arguments, its local eval_formula, where it is,
  \* what it returned or raised, and how often eval() was called
  formula, sampled_values, player_suffix, variables_data,
  eval_formula, epc, result, eval_calls,
  \* process_game_info: its argument, where it is, its result lists, the
  \* locals of the trial loop, and what it returned or raised
  game_data, pc,
  playerA_variables, playerB_variables, payoffs_and_results, failed_simulations,
  run, i, j, run_data_A, run_data_B, scenario_payoffs,
  playerA_sampled, playerB_sampled, sampled_val, min_val, max_val, clamped_val,
  outcomes, g, sim_result, sim_error, e, response

evalVars ==
  <<formula, sampled_values, player_suffix, variables_data,
    eval_formula, epc, result, eval_calls>>

tables ==
  <<playerA_variables, playerB_variables, payoffs_and_results, failed_simulations>>

sampling ==
  <<playerA_sampled, playerB_sampled, sampled_val, min_val, max_val, clamped_val>>

trial == <<run_data_A, run_data_B, scenario_payoffs>>

solving == <<outcomes, g, sim_result>>

simVars ==
  <<game_data, pc, tables, run, i, j, trial, sampling, solving, sim_error, e,
    response>>

vars == <<evalVars, simVars>>

\* A local that is not bound yet.
None == [none |-> TRUE]

\* The lists are empty and no local is bound.
SimUnbound ==
  /\ playerA_variables = <<>> /\ playerB_variables = <<>>
  /\ payoffs_and_results = <<>> /\ failed_simulations = <<>>
  /\ run = -1 /\ i = -1 /\ j = -1
  /\ run_data_A = None /\ run_data_B = None /\ scenario_payoffs = None
  /\ playerA_sampled = None /\ playerB_sampled = None
  /\ sampled_val = None /\ min_val = None /\ max_val = None /\ clamped_val = None
  /\ outcomes = None /\ g = None /\ sim_result = None
  /\ sim_error = None /\ e = None /\ response = None

\* process_game_info is not running.
SimIdle == game_data = None /\ pc = "idle" /\ SimUnbound

\* evaluate_formula is not running as a call of its own.
EvalIdle ==
  /\ formula = <<>> /\ sampled_values = <<>> /\ player_suffix = <<>>
  /\ variables_data = <<>> /\ eval_formula = <<>> /\ epc = "idle"
  /\ result = None /\ eval_calls = 0

(***************************************************************************)
(* The inputs of the evaluator's specification                             *)
(***************************************************************************)

\* Sampled values handed to a direct call range over -1..MaxSample.
MaxSample == 5

id_v1 == <<"v", "1">>
id_V1 == <<"V", "1">>
id_v2 == <<"v", "2">>
id_v3 == <<"v", "3">>
txt_Weight == <<"_", "W", "e", "i", "g", "h", "t">>
txt_WEIGHT == <<"_", "W", "E", "I", "G", "H", "T">>

Formulas ==
  { id_v1 \o txt_Val \o <<"+">> \o id_v2 \o txt_Val,
    id_v1 \o <<"+">> \o id_v2,
    id_v1 \o txt_stnd,
    id_V1 \o txt_Stnd,
    id_v1 \o txt_weight \o <<"*">> \o id_v1 \o txt_stnd,
    id_v1 \o txt_stnd \o <<"+">> \o id_v1 \o txt_Val,
    id_v1 \o txt_weight \o <<"*">> \o id_v1 \o txt_Val,
    id_V1 \o txt_weight \o <<"*">> \o id_V1 \o txt_Val,
    id_v1 \o txt_Weight \o <<"*">> \o id_v1 \o txt_Val,
    id_V1 \o txt_WEIGHT \o <<"*">> \o id_V1 \o txt_Val,
    id_v1 \o txt_Val \o <<"+">> \o id_v3 \o txt_Val,
    id_v2 \o txt_Val \o <<"/", "(">> \o id_v1 \o txt_Val \o <<"-", "2", ")">>,
    <<"(">> \o id_v1 \o txt_Val \o <<"*">> }

DesiredEffects ==
  { txt_positive,
    <<"P", "o", "s", "i", "t", "i", "v", "e">>,
    txt_negative,
    <<"N", "E", "G", "A", "T", "I", "V", "E">>,
    <<"n", "o", "n", "e">> }

\* (min, max) of the first variable: two proper ranges and a degenerate one.
BoundPairs == {<<0, 4>>, <<2, 4>>, <<2, 2>>}

VarDef(name, lo, hi, sd, effect, weight) ==
  [variableNumber |-> name, min |-> PyInt(lo), max |-> PyInt(hi),
   stdev |-> PyInt(sd), desiredEffect |-> effect, weight |-> weight]

\* Two declared variables; the first is spelled v1 or V1.
VariablesData ==
  { << VarDef(name, b[1], b[2], 1, effect, weight),
       VarDef(id_v2, 0, 2, 0, txt_negative, <<Num(1, 4, TRUE)>>) >> :
      name \in {id_v1, id_V1}, b \in BoundPairs, effect \in DesiredEffects,
      weight \in {<<>>, <<PyInt(2)>>} }

Item(key, value) == [key |-> key, value |-> value]

\* The samples of a call: the first variable's own, v2 fixed at 1.0, and one
\* entry of the other player.
SampledValues(name, x) ==
  << Item(name \o <<"_", "A">>, PyFloat(x)),
     Item(id_v2 \o <<"_", "A">>, PyFloat(1)),
     Item(name \o <<"_", "B">>, PyFloat(3)) >>

(***************************************************************************)
(* evaluate_formula, step by step                                          *)
(***************************************************************************)

EvalInit ==
  /\ formula \in Formulas
  /\ variables_data \in VariablesData
  /\ \E x \in (-1)..MaxSample :
       sampled_values = SampledValues(variables_data[1].variableNumber, x)
  /\ player_suffix \in {<<"A">>, <<"B">>}
  /\ eval_formula = formula
  /\ epc = "weights"
  /\ result = None
  /\ eval_calls = 0
  /\ SimIdle

\* The weight loop.
StepWeights ==
  /\ epc = "weights"
  /\ eval_formula' = ReplaceWeights(eval_formula, variables_data)
  /\ epc' = "values"
  /\ UNCHANGED <<formula, sampled_values, player_suffix, variables_data,
                 result, eval_calls, simVars>>

\* The loop over the sampled values, to its end or to the exception that
\* leaves it for the handler.
StepValues ==
  /\ epc = "values"
  /\ LET r == ReplaceValues(eval_formula, sampled_values, formula, player_suffix,
                            variables_data)
     IN  IF r.ok
         THEN /\ eval_formula' = r.text
              /\ epc' = "check"
              /\ UNCHANGED result
         ELSE /\ result' = [ok |-> FALSE, exc |-> Reraise(formula, r.exc)]
              /\ epc' = "done"
              /\ UNCHANGED eval_formula
  /\ UNCHANGED <<formula, sampled_values, player_suffix, variables_data, eval_calls,
                 simVars>>

\* The allow-list test: on to eval(), or ValueError into the handler.
StepCheck ==
  /\ epc = "check"
  /\ IF AllAllowed(eval_formula)
     THEN /\ epc' = "eval"
          /\ UNCHANGED result
     ELSE /\ result' = [ok |-> FALSE,
                        exc |-> Reraise(formula, InvalidCharacters(formula))]
          /\ epc' = "done"
  /\ UNCHANGED <<formula, sampled_values, player_suffix, variables_data,
                 eval_formula, eval_calls, simVars>>

\* result = eval(eval_formula); return float(result)
StepEval ==
  /\ epc = "eval"
  /\ eval_calls' = eval_calls + 1
  /\ LET r == PyEval(eval_formula)
     IN  result' = IF r.ok THEN [ok |-> TRUE, val |-> ToFloat(r.val)]
                   ELSE [ok |-> FALSE, exc |-> Reraise(formula, r.exc)]
  /\ epc' = "done"
  /\ UNCHANGED <<formula, sampled_values, player_suffix, variables_data, eval_formula,
                 simVars>>

EvalNext == StepWeights \/ StepValues \/ StepCheck \/ StepEval

EvalSpec == EvalInit /\ [][EvalNext]_vars

(***************************************************************************)
(* process_game_info                                                       *)
(*                                                                         *)
(* A dict with keys made at run time is the sequence of its items [key,    *)
(* value] in insertion order.  A dict whose key may be absent from the     *)
(* request (game_data, a player object) is a record whose field is <<>>    *)
(* when the key is absent and <<value>> otherwise.  A JSON string is       *)
(* [text |-> characters].                                                  *)
(***************************************************************************)

\* The number of trials of the model (the code runs n = 1000).
MaxTrials == 2

\* n = 1000 in the code; the model runs MaxTrials trials.
n == MaxTrials

\* sample_from_distribution(mean, stdev, 1)[0] is drawn outside this
\* repository: the model lets it be mean + k * stdev for k in NoiseSteps.
NoiseSteps == {-1, 1}

Text(chars) == [text |-> chars]
IsText(v) == "text" \in DOMAIN v

\* float(v): a number as a float; a string when it spells a decimal number,
\* and otherwise ValueError.
FloatOf(v) ==
  IF ~IsText(v) THEN [ok |-> TRUE, val |-> ToFloat(v)]
  ELSE LET r == ParseNumber(v.text)
       IN  IF r.ok /\ r.rest = <<>> THEN [ok |-> TRUE, val |-> ToFloat(r.val)]
           ELSE [ok |-> FALSE,
                 exc |-> Exc("ValueError",
                             <<"could not convert string to float: ", v.text>>)]

\* d[key] = value
DictSet(d, key, value) ==
  IF \E k \in 1..Len(d) : d[k].key = key
  THEN [k \in 1..Len(d) |-> IF d[k].key = key THEN Item(key, value) ELSE d[k]]
  ELSE Append(d, Item(key, value))

DictHas(d, key) == \E k \in 1..Len(d) : d[k].key = key

\* d[key], for a key of d
DictGet(d, key) == d[CHOOSE k \in 1..Len(d) : d[k].key = key].value

\* d.update(items), item after item
RECURSIVE DictSetAll(_, _)
DictSetAll(d, items) ==
  IF items = <<>> THEN d
  ELSE DictSetAll(DictSet(d, items[1].key, items[1].value), Tail(items))

KeyError(key) == Exc("KeyError", <<"'", key, "'">>)
IndexError == Exc("IndexError", <<"list index out of range">>)

txt_simulation_run ==
  <<"s", "i", "m", "u", "l", "a", "t", "i", "o", "n", "_", "r", "u", "n">>

NT_NT == <<"N", "T", "_", "N", "T">>
T_NT == <<"T", "_", "N", "T">>
NT_T == <<"N", "T", "_", "T">>
T_T == <<"T", "_", "T">>

create_game(outcomes_) ==
  [moves |-> << [player |-> "Player A", actions |-> <<"Tariff", "No Tariff">>],
                [player |-> "Player B", actions |-> <<"Tariff", "No Tariff">>] >>,
   outcomes |-> outcomes_]

\* str(solver.record_equilibrium()): the solver is outside this repository;
\* its answer is kept as a value that names the game it was given.
record_equilibrium(game) == [equilibrium_of |-> game.outcomes]

\* f"{x:.1f}%" for x = 100 * successful / trials, rounded half to even.
SuccessRate(successful, trials) ==
  IF trials > 0
  THEN LET q == (1000 * successful) \div trials
           r == (1000 * successful) % trials
           t == IF 2 * r > trials \/ (2 * r = trials /\ q % 2 = 1) THEN q + 1 ELSE q
       IN  Digits(t \div 10) \o <<".">> \o Digits(t % 10) \o <<"%">>
  ELSE <<"0", "%">>

(***************************************************************************)
(* The requests of the model                                               *)
(***************************************************************************)

Player(formula_, variables_, scenarios_, scenarioValues_) ==
  [formula |-> formula_, variables |-> variables_, scenarios |-> scenarios_,
   scenarioValues |-> scenarioValues_]

Rows(means) == [k \in 1..Len(means) |-> <<PyInt(means[k])>>]

\* All orders of the four labels.
ScenarioOrders ==
  LET L == {NT_NT, T_NT, NT_T, T_T}
  IN  {q \in {<<a, b, c, d>> : a \in L, b \in L, c \in L, d \in L} :
         \A x, y \in 1..4 : x # y => q[x] # q[y]}

StdOrder == <<NT_NT, T_NT, NT_T, T_T>>

f_v1_Val == id_v1 \o txt_Val
f_v1_stnd == id_v1 \o txt_stnd
f_quotient == <<"4", "/", "(">> \o id_v1 \o txt_Val \o <<"-", "2", ")">>
f_unresolved == id_v1 \o txt_Val \o <<"+">> \o id_v3 \o txt_Val
f_twice == id_v1 \o txt_Val \o <<"*", "2">>

\* Player B: one variable without noise; the last scenario's mean lies above
\* its max.
PlayerB ==
  Player(f_twice, <<VarDef(id_v1, 0, 10, 0, txt_negative, <<>>)>>,
         <<StdOrder>>, Rows(<<5, 6, 7, 12>>))

\* Player A with formula f_, the variable's bounds, its stdev, the optional
\* scenario list and the scenario means.
PlayerA(f_, lo, hi, sd, scenarios_, means) ==
  Player(f_, <<[VarDef(id_v1, lo, hi, 0, txt_positive, <<>>) EXCEPT !.stdev = sd]>>,
         scenarios_, Rows(means))

Request(a) == [playerA |-> <<a>>, playerB |-> <<PlayerB>>]

GameInputs ==
  \* well-formed requests: every declaration order without noise, and noisy
  \* samples under a standardizing formula and under one that divides by
  \* (v1 - 2)
  {Request(PlayerA(f_v1_Val, 0, 4, PyInt(0), <<o>>, <<1, 2, 3, 4>>)) : o \in ScenarioOrders}
  \cup
  {Request(PlayerA(f_, 0, 4, PyInt(1), <<StdOrder>>, <<1, 2, 3, 4>>)) :
     f_ \in {f_v1_stnd, f_quotient}}
  \cup
  { \* a label declared twice, with a row of its own each time
    Request(PlayerA(f_v1_Val, 0, 4, PyInt(0),
                    <<StdOrder \o <<NT_NT>> >>, <<1, 2, 3, 4, 0>>)),
    \* no scenarios key
    Request(PlayerA(f_v1_Val, 0, 4, PyInt(0), <<>>, <<1, 2, 3, 4>>)),
    \* a scenario list without T_T
    Request(PlayerA(f_v1_Val, 0, 4, PyInt(0), << <<NT_NT, T_NT, NT_T>> >>, <<1, 2, 3>>)),
    \* fewer rows than scenarios
    Request(PlayerA(f_v1_Val, 0, 4, PyInt(0), <<StdOrder>>, <<1, 2, 3>>)),
    \* fewer columns than variables
    Request([PlayerA(f_v1_Val, 0, 4, PyInt(0), <<StdOrder>>, <<1, 2, 3, 4>>)
               EXCEPT !.scenarioValues = << <<PyInt(1)>>, <<>>, <<PyInt(3)>>, <<PyInt(4)>> >>]),
    \* a variable id that is not sampled
    Request(PlayerA(f_unresolved, 0, 4, PyInt(0), <<StdOrder>>, <<1, 2, 3, 4>>)),
    \* min = max under standardization
    Request(PlayerA(f_v1_stnd, 2, 2, PyInt(0), <<StdOrder>>, <<1, 2, 3, 4>>)),
    \* a stdev that is no number
    Request(PlayerA(f_v1_Val, 0, 4, Text(<<"x">>), <<StdOrder>>, <<1, 2, 3, 4>>)),
    \* no playerB key
    [playerA |-> <<PlayerA(f_v1_Val, 0, 4, PyInt(0), <<StdOrder>>, <<1, 2, 3, 4>>)>>,
     playerB |-> <<>>] }

(***************************************************************************)
(* process_game_info, step by step.  run, i and j are the code's zero-     *)
(* based loop variables; -1 stands for a loop that has not bound its       *)
(* variable yet.                                                           *)
(***************************************************************************)

SimInit ==
  /\ game_data \in GameInputs
  /\ pc = "start"
  /\ SimUnbound
  /\ EvalIdle

\* The exception exc leaves the trial's try block for its handler.
Raise(exc) == sim_error' = exc /\ pc' = "except"

\* playerA = game_data['playerA'], playerB = game_data['playerB'], and the
\* empty result lists.
Enter ==
  /\ pc = "start"
  /\ UNCHANGED evalVars
  /\ IF game_data.playerA = <<>> \/ game_data.playerB = <<>>
     THEN /\ e' = KeyError(IF game_data.playerA = <<>> THEN "playerA" ELSE "playerB")
          /\ pc' = "outer_except"
          /\ UNCHANGED tables
     ELSE /\ playerA_variables' = <<>> /\ playerB_variables' = <<>>
          /\ payoffs_and_results' = <<>> /\ failed_simulations' = <<>>
          /\ pc' = "loop"
          /\ UNCHANGED e
  /\ UNCHANGED <<game_data, run, i, j, trial, sampling, solving, sim_error, response>>

\* for run in range(n): the next trial with its fresh dicts, or the end of
\* the loop.
NextTrial ==
  /\ pc = "loop"
  /\ UNCHANGED evalVars
  /\ IF run + 1 < n
     THEN /\ run' = run + 1
          /\ run_data_A' = <<Item(txt_simulation_run, run' + 1)>>
          /\ run_data_B' = <<Item(txt_simulation_run, run' + 1)>>
          /\ scenario_payoffs' = <<>>
          /\ i' = -1
          /\ pc' = "scenario"
     ELSE /\ pc' = "finish"
          /\ UNCHANGED <<run, i, trial>>
  /\ UNCHANGED <<game_data, tables, j, sampling, solving, sim_error, e, response>>

\* for i, scenario in enumerate(playerA['scenarios']): the next scenario, or
\* the end of the loop.
ScenarioLoop ==
  /\ pc = "scenario"
  /\ UNCHANGED evalVars
  /\ LET A == game_data.playerA[1]
     IN  IF A.scenarios = <<>>
         THEN /\ Raise(KeyError("scenarios"))
              /\ UNCHANGED <<i, j, playerA_sampled>>
         ELSE IF i + 1 < Len(A.scenarios[1])
         THEN /\ i' = i + 1
              /\ playerA_sampled' = <<>>
              /\ j' = -1
              /\ pc' = "sampleA"
              /\ UNCHANGED sim_error
         ELSE /\ pc' = "store"
              /\ UNCHANGED <<i, j, playerA_sampled, sim_error>>
  /\ UNCHANGED <<game_data, tables, run, trial, playerB_sampled, sampled_val, min_val,
                 max_val, clamped_val, solving, e, response>>

\* Sampling and clamping for converted mean, stdev, min and max, with the
\* sampling primitive answering mean + k * stdev.
Clamped(key, mean, stdev, lo, hi, k) ==
  IF ~mean.ok THEN mean
  ELSE IF ~stdev.ok THEN stdev
  ELSE IF ~lo.ok THEN lo
  ELSE IF ~hi.ok THEN hi
  ELSE [ok |-> TRUE,
        key |-> key,
        sampled_val |-> NumAdd(mean.val, NumMul(PyFloat(k), stdev.val)),
        min_val |-> lo.val,
        max_val |-> hi.val,
        clamped_val |->
          clamp_to_bounds(NumAdd(mean.val, NumMul(PyFloat(k), stdev.val)), lo.val, hi.val)]

\* The body of a sampling loop for variable jj of scenario ii of `player`:
\* the locals it binds, or the exception it raises.
Draw(player, ii, jj, k, tag) ==
  IF ii + 1 > Len(player.scenarioValues) THEN [ok |-> FALSE, exc |-> IndexError]
  ELSE IF jj + 1 > Len(player.scenarioValues[ii + 1]) THEN [ok |-> FALSE, exc |-> IndexError]
  ELSE Clamped(player.variables[jj + 1].variableNumber \o <<"_">> \o tag,
               FloatOf(player.scenarioValues[ii + 1][jj + 1]),
               FloatOf(player.variables[jj + 1].stdev),
               FloatOf(player.variables[jj + 1].min),
               FloatOf(player.variables[jj + 1].max),
               k)

\* The locals of the sampling loop after the body d.
BindSample(d) ==
  /\ j' = j + 1
  /\ IF d.ok
     THEN /\ sampled_val' = d.sampled_val
          /\ min_val' = d.min_val
          /\ max_val' = d.max_val
          /\ clamped_val' = d.clamped_val
          /\ UNCHANGED <<pc, sim_error>>
     ELSE /\ Raise(d.exc)
          /\ UNCHANGED <<sampled_val, min_val, max_val, clamped_val>>

\* for j, var in enumerate(playerA['variables']): sample, clamp and keep the
\* next variable, or go on to player B.
SampleA ==
  /\ pc = "sampleA"
  /\ UNCHANGED evalVars
  /\ IF j + 1 < Len(game_data.playerA[1].variables)
     THEN /\ \E k \in NoiseSteps :
               /\ BindSample(Draw(game_data.playerA[1], i, j + 1, k, <<"A">>))
               /\ playerA_sampled' =
                    IF pc' = "except" THEN playerA_sampled
                    ELSE DictSet(playerA_sampled,
                                 game_data.playerA[1].variables[j + 2].variableNumber
                                   \o <<"_", "A">>,
                                 clamped_val')
          /\ UNCHANGED playerB_sampled
     ELSE /\ playerB_sampled' = <<>>
          /\ j' = -1
          /\ pc' = "sampleB"
          /\ UNCHANGED <<sim_error, playerA_sampled, sampled_val, min_val, max_val,
                         clamped_val>>
  /\ UNCHANGED <<game_data, tables, run, i, trial, solving, e, response>>

\* for j, var in enumerate(playerB['variables']): the same for player B, or
\* go on to the formulas.
SampleB ==
  /\ pc = "sampleB"
  /\ UNCHANGED evalVars
  /\ IF j + 1 < Len(game_data.playerB[1].variables)
     THEN /\ \E k \in NoiseSteps :
               /\ BindSample(Draw(game_data.playerB[1], i, j + 1, k, <<"B">>))
               /\ playerB_sampled' =
                    IF pc' = "except" THEN playerB_sampled
                    ELSE DictSet(playerB_sampled,
                                 game_data.playerB[1].variables[j + 2].variableNumber
                                   \o <<"_", "B">>,
                                 clamped_val')
          /\ UNCHANGED playerA_sampled
     ELSE /\ pc' = "payoff"
          /\ UNCHANGED <<j, sim_error, sampling>>
  /\ UNCHANGED <<game_data, tables, run, i, trial, solving, e, response>>

\* The items of `sampled` under the keys f"{var_name}_{scenario}".
ScenarioItems(sampled, scenario) ==
  [k \in 1..Len(sampled) |->
     Item(sampled[k].key \o <<"_">> \o scenario, sampled[k].value)]

\* The scenario's pair is kept under its label and the samples go into the
\* trial's two rows, unless a formula raised.
KeepPayoffs(scenario, playerA_payoff, playerB_payoff) ==
  IF ~playerA_payoff.ok
  THEN Raise(playerA_payoff.exc) /\ UNCHANGED trial
  ELSE IF ~playerB_payoff.ok
  THEN Raise(playerB_payoff.exc) /\ UNCHANGED trial
  ELSE /\ scenario_payoffs' =
            DictSet(scenario_payoffs, scenario, <<playerA_payoff.val, playerB_payoff.val>>)
       /\ run_data_A' = DictSetAll(run_data_A, ScenarioItems(playerA_sampled, scenario))
       /\ run_data_B' = DictSetAll(run_data_B, ScenarioItems(playerB_sampled, scenario))
       /\ pc' = "scenario"
       /\ UNCHANGED sim_error

\* Both formulas are evaluated on the scenario's samples.
EvalPayoffs ==
  /\ pc = "payoff"
  /\ UNCHANGED evalVars
  /\ KeepPayoffs(game_data.playerA[1].scenarios[1][i + 1],
                 evaluate_formula(game_data.playerA[1].formula, playerA_sampled, <<"A">>,
                                  game_data.playerA[1].variables),
                 evaluate_formula(game_data.playerB[1].formula, playerB_sampled, <<"B">>,
                                  game_data.playerB[1].variables))
  /\ UNCHANGED <<game_data, tables, run, i, j, sampling, solving, e, response>>

\* The trial's two rows of samples are appended to the variable tables.
StoreVariables ==
  /\ pc = "store"
  /\ UNCHANGED evalVars
  /\ playerA_variables' = Append(playerA_variables, run_data_A)
  /\ playerB_variables' = Append(playerB_variables, run_data_B)
  /\ pc' = "outcomes"
  /\ UNCHANGED <<game_data, payoffs_and_results, failed_simulations, run, i, j, trial,
                 sampling, solving, sim_error, e, response>>

\* The four labels in the order the solver is given them.
OutcomeOrder == <<NT_NT, T_NT, NT_T, T_T>>

\* The outcomes taken in the order the scenarios were declared in.
AssembleInDeclaredOrder ==
  /\ pc = "outcomes"
  /\ UNCHANGED evalVars
  /\ IF Len(scenario_payoffs) >= 4
     THEN /\ outcomes' = [k \in 1..4 |-> scenario_payoffs[k].value]
          /\ pc' = "solve"
          /\ UNCHANGED sim_error
     ELSE /\ Raise(IndexError)
          /\ UNCHANGED outcomes
  /\ UNCHANGED <<game_data, tables, run, i, j, trial, sampling, g, sim_result, e, response>>

\* outcomes = [scenario_payoffs['NT_NT'], scenario_payoffs['T_NT'],
\*             scenario_payoffs['NT_T'], scenario_payoffs['T_T']]
AssembleOutcomes ==
  /\ pc = "outcomes"
  /\ UNCHANGED evalVars
  /\ IF \A k \in 1..4 : DictHas(scenario_payoffs, OutcomeOrder[k])
     THEN /\ outcomes' = [k \in 1..4 |-> DictGet(scenario_payoffs, OutcomeOrder[k])]
          /\ pc' = "solve"
          /\ UNCHANGED sim_error
     ELSE /\ Raise(KeyError(
                 OutcomeOrder[CHOOSE k \in 1..4 :
                   /\ ~DictHas(scenario_payoffs, OutcomeOrder[k])
                   /\ \A m \in 1..(k - 1) : DictHas(scenario_payoffs, OutcomeOrder[m])]))
          /\ UNCHANGED outcomes
  /\ UNCHANGED <<game_data, tables, run, i, j, trial, sampling, g, sim_result, e, response>>

\* g = create_game(outcomes); the solver, which is not part of this
\* repository, answers or raises.
Solve ==
  /\ pc = "solve"
  /\ UNCHANGED evalVars
  /\ g' = create_game(outcomes)
  /\ \E raises \in BOOLEAN :
       IF raises
       THEN /\ Raise(Exc("SolverError", <<"the solver raised">>))
            /\ UNCHANGED sim_result
       ELSE /\ sim_result' = record_equilibrium(g')
            /\ pc' = "record"
            /\ UNCHANGED sim_error
  /\ UNCHANGED <<game_data, tables, run, i, j, trial, sampling, outcomes, e, response>>

\* The trial's row of payoffs and its equilibrium.
payoff_data ==
  [simulation_run |-> run + 1,
   NT_NT_PlayerA |-> DictGet(scenario_payoffs, NT_NT)[1],
   NT_NT_PlayerB |-> DictGet(scenario_payoffs, NT_NT)[2],
   T_NT_PlayerA |-> DictGet(scenario_payoffs, T_NT)[1],
   T_NT_PlayerB |-> DictGet(scenario_payoffs, T_NT)[2],
   NT_T_PlayerA |-> DictGet(scenario_payoffs, NT_T)[1],
   NT_T_PlayerB |-> DictGet(scenario_payoffs, NT_T)[2],
   T_T_PlayerA |-> DictGet(scenario_payoffs, T_T)[1],
   T_T_PlayerB |-> DictGet(scenario_payoffs, T_T)[2],
   equilibrium_result |-> sim_result]

RecordPayoffs ==
  /\ pc = "record"
  /\ UNCHANGED evalVars
  /\ payoffs_and_results' = Append(payoffs_and_results, payoff_data)
  /\ pc' = "loop"
  /\ UNCHANGED <<game_data, playerA_variables, playerB_variables, failed_simulations,
                 run, i, j, trial, sampling, solving, sim_error, e, response>>

\* A handler that logs the failure and leaves the loop.
TrialExceptBreak ==
  /\ pc = "except"
  /\ UNCHANGED evalVars
  /\ failed_simulations' =
       Append(failed_simulations,
              [simulation_run |-> run + 1,
               error |-> sim_error.msg,
               error_type |-> sim_error.type])
  /\ pc' = "finish"
  /\ UNCHANGED <<game_data, playerA_variables, playerB_variables, payoffs_and_results,
                 run, i, j, trial, sampling, solving, sim_error, e, response>>

\* except Exception as sim_error: the failure is logged and the loop goes on.
TrialExcept ==
  /\ pc = "except"
  /\ UNCHANGED evalVars
  /\ failed_simulations' =
       Append(failed_simulations,
              [simulation_run |-> run + 1,
               error |-> sim_error.msg,
               error_type |-> sim_error.type])
  /\ pc' = "loop"
  /\ UNCHANGED <<game_data, playerA_variables, playerB_variables, payoffs_and_results,
                 run, i, j, trial, sampling, solving, sim_error, e, response>>

\* The dict returned after the loop (processing_timestamp, the clock's
\* reading, is left out).
processed_results ==
  LET successful_runs == Len(payoffs_and_results)
      failed_count == Len(failed_simulations)
  IN  [status |-> "processed",
       input_data |-> game_data,
       simulation_runs |-> n,
       successful_runs |-> successful_runs,
       failed_runs |-> failed_count,
       success_rate |-> SuccessRate(successful_runs, n),
       failed_simulations |-> IF failed_count > 0 THEN failed_simulations ELSE None,
       excel_data |-> [playerA_variables |-> playerA_variables,
                       playerB_variables |-> playerB_variables,
                       payoffs_and_results |-> payoffs_and_results]]

Finish ==
  /\ pc = "finish"
  /\ UNCHANGED evalVars
  /\ response' = [kind |-> "return", value |-> processed_results]
  /\ pc' = "done"
  /\ UNCHANGED <<game_data, tables, run, i, j, trial, sampling, solving, sim_error, e>>

\* except Exception as e, around the whole function.
OuterExcept ==
  /\ pc = "outer_except"
  /\ UNCHANGED evalVars
  /\ response' = [kind |-> "raise",
                  exc |-> Exc("Exception",
                              <<"Error in custom software processing: ">> \o e.msg)]
  /\ pc' = "done"
  /\ UNCHANGED <<game_data, tables, run, i, j, trial, sampling, solving, sim_error, e>>

Next ==
  \/ Enter
  \/ NextTrial
  \/ ScenarioLoop
  \/ SampleA
  \/ SampleB
  \/ EvalPayoffs
  \/ StoreVariables
  \/ AssembleOutcomes
  \/ Solve
  \/ RecordPayoffs
  \/ TrialExcept
  \/ Finish
  \/ OuterExcept

Spec == SimInit /\ [][Next]_vars

(***************************************************************************)
(* Properties of process_game_info (checked under Spec)                    *)
(***************************************************************************)

\* How many entries of a table (rows of payoffs, failure entries) carry the
\* trial index k.
CountOf(table, k) == Cardinality({m \in 1..Len(table) : table[m].simulation_run = k})

\* The trial index a row of a variable table carries.
RunOfRow(row) == DictGet(row, txt_simulation_run)

\* The trials the loop has gone through.
CompletedTrials == IF pc \in {"loop", "finish", "done"} THEN run + 1 ELSE run

\* C1: an exception in a trial ends that trial only.  Every trial the loop
\* has gone through appears exactly once, as a row of payoffs or as a
\* failure entry with its index and an error label, and no other index
\* appears; when the function returns, all n trials have run and
\* successful_runs + failed_runs = n.
C1_EveryTrialAccounted ==
  /\ \A k \in 1..n :
       CountOf(payoffs_and_results, k) + CountOf(failed_simulations, k)
         = (IF k <= CompletedTrials THEN 1 ELSE 0)
  /\ Len(payoffs_and_results) + Len(failed_simulations) <= n
  /\ \A m \in 1..Len(failed_simulations) :
       /\ failed_simulations[m].error_type # ""
       /\ failed_simulations[m].error # <<>>
  /\ (pc = "done" /\ response.kind = "return")
       => /\ run + 1 = n
          /\ response.value.successful_runs + response.value.failed_runs = n
          /\ response.value.successful_runs = Len(payoffs_and_results)
          /\ response.value.failed_runs = Len(failed_simulations)
          /\ response.value.excel_data.payoffs_and_results = payoffs_and_results
          /\ response.value.failed_runs > 0
               => response.value.failed_simulations = failed_simulations

\* The run has returned with its first trial failed in a formula and a later
\* trial recorded.
C1_Witness ==
  /\ pc = "done"
  /\ response.kind = "return"
  /\ failed_simulations # <<>>
  /\ failed_simulations[1].simulation_run = 1
  /\ failed_simulations[1].error_type = "Exception"
  /\ payoffs_and_results # <<>>
  /\ payoffs_and_results[1].simulation_run = 2

\* C2: no row of the variable tables or of the payoff table carries the
\* index of a trial that is listed as failed.
C2_FailedTrialLeavesNoRow ==
  \A m \in 1..Len(failed_simulations) :
    LET k == failed_simulations[m].simulation_run
    IN  /\ \A r \in 1..Len(playerA_variables) : RunOfRow(playerA_variables[r]) # k
        /\ \A r \in 1..Len(playerB_variables) : RunOfRow(playerB_variables[r]) # k
        /\ CountOf(payoffs_and_results, k) = 0

\* The request has both players, and player A lacks the scenarios key, or a
\* matrix of means has fewer rows than there are scenarios or a row with
\* fewer columns than the player has variables, or one of the four labels is
\* not declared.
StructuralError ==
  /\ game_data.playerA # <<>>
  /\ game_data.playerB # <<>>
  /\ LET A == game_data.playerA[1]
         B == game_data.playerB[1]
         short(P) ==
           \/ Len(P.scenarioValues) < Len(A.scenarios[1])
           \/ \E r \in 1..Len(P.scenarioValues) :
                Len(P.scenarioValues[r]) < Len(P.variables)
     IN  \/ A.scenarios = <<>>
         \/ short(A)
         \/ short(B)
         \/ \E k \in 1..4 :
              \A m \in 1..Len(A.scenarios[1]) : A.scenarios[1][m] # OutcomeOrder[k]

\* C3: a request with a structural error fails as a whole: nothing is logged
\* as a failed trial and the function does not return.
C3_StructuralErrorFailsTheRun ==
  StructuralError
    => /\ failed_simulations = <<>>
       /\ pc = "done" => response.kind = "raise"

\* The samples the variable table's row holds for `label`, as the dict the
\* formula was evaluated on.
SamplesOf(player, tag, row, label) ==
  [k \in 1..Len(player.variables) |->
     Item(player.variables[k].variableNumber \o <<"_">> \o tag,
          DictGet(row, player.variables[k].variableNumber \o <<"_">> \o tag
                         \o <<"_">> \o label))]

\* The pair of payoffs of the scenario declared as `label`, from the samples
\* the trial's rows hold for it.
PayoffOf(label, rowA, rowB) ==
  << evaluate_formula(game_data.playerA[1].formula,
                      SamplesOf(game_data.playerA[1], <<"A">>, rowA, label), <<"A">>,
                      game_data.playerA[1].variables).val,
     evaluate_formula(game_data.playerB[1].formula,
                      SamplesOf(game_data.playerB[1], <<"B">>, rowB, label), <<"B">>,
                      game_data.playerB[1].variables).val >>

\* The trial just ended was recorded as a success.
TrialRecorded ==
  /\ pc = "loop"
  /\ payoffs_and_results # <<>>
  /\ payoffs_and_results[Len(payoffs_and_results)].simulation_run = run + 1

\* C4: the game of a successful trial was given the outcomes [NT_NT, T_NT,
\* NT_T, T_T], each the pair computed from that trial's samples of the
\* scenario declared under that label, whatever the order of declaration;
\* the trial's payoff row holds the same eight values.
C4_OutcomeOrder ==
  TrialRecorded =>
    LET row == payoffs_and_results[Len(payoffs_and_results)]
        rowA == playerA_variables[Len(playerA_variables)]
        rowB == playerB_variables[Len(playerB_variables)]
    IN  /\ RunOfRow(rowA) = run + 1
        /\ RunOfRow(rowB) = run + 1
        /\ g.outcomes = << PayoffOf(NT_NT, rowA, rowB), PayoffOf(T_NT, rowA, rowB),
                           PayoffOf(NT_T, rowA, rowB), PayoffOf(T_T, rowA, rowB) >>
        /\ g.outcomes = << <<row.NT_NT_PlayerA, row.NT_NT_PlayerB>>,
                           <<row.T_NT_PlayerA, row.T_NT_PlayerB>>,
                           <<row.NT_T_PlayerA, row.NT_T_PlayerB>>,
                           <<row.T_T_PlayerA, row.T_T_PlayerB>> >>

\* A trial whose scenarios were declared in the reverse order was recorded:
\* the first outcome is the pair of NT_NT, declared last (mean 4 for A, and
\* for B the mean 12 clamped to 10 and doubled).
C4_Witness ==
  /\ TrialRecorded
  /\ game_data.playerA[1].scenarios = << <<T_T, NT_T, T_NT, NT_NT>> >>
  /\ g.outcomes[1] = <<PyFloat(4), PyFloat(20)>>
  /\ g.outcomes[4] = <<PyFloat(1), PyFloat(10)>>

\* v lies within the declared bounds of var, when they are ordered.
WithinBounds(v, var) ==
  NumLe(var.min, var.max) => (NumLe(var.min, v) /\ NumLe(v, var.max))

\* Every sample of the dict `sampled` lies within the bounds of the
\* variable it is kept for.
SamplesWithinBounds(sampled, player, tag) ==
  \A k \in 1..Len(sampled) :
    \E v \in 1..Len(player.variables) :
      /\ sampled[k].key = player.variables[v].variableNumber \o <<"_">> \o tag
      /\ WithinBounds(sampled[k].value, player.variables[v])

\* Every sample of a row of a variable table lies within the bounds of its
\* variable.
RowWithinBounds(row, player, tag) ==
  \A k \in 1..Len(row) :
    row[k].key # txt_simulation_run =>
      \E v \in 1..Len(player.variables) :
        /\ StartsWith(row[k].key,
                      player.variables[v].variableNumber \o <<"_">> \o tag \o <<"_">>)
        /\ WithinBounds(row[k].value, player.variables[v])

\* C7: the value kept for a sample is clamp_to_bounds of it: with min <= max
\* it lies in [min, max], equals the sample when that already lies there, and
\* clamping it again changes nothing; the dicts handed to evaluate_formula
\* and the rows of the variable tables hold only such values.
C7_SamplesClamped ==
  /\ (clamped_val # None /\ NumLe(min_val, max_val))
       => /\ NumLe(min_val, clamped_val) /\ NumLe(clamped_val, max_val)
          /\ (NumLe(min_val, sampled_val) /\ NumLe(sampled_val, max_val))
               => clamped_val = sampled_val
          /\ clamp_to_bounds(clamped_val, min_val, max_val) = clamped_val
  /\ (pc = "sampleA" /\ j >= 0)
       => playerA_sampled[Len(playerA_sampled)].value = clamped_val
  /\ (pc = "sampleB" /\ j >= 0)
       => playerB_sampled[Len(playerB_sampled)].value = clamped_val
  /\ pc \in {"payoff", "store"}
       => /\ SamplesWithinBounds(playerA_sampled, game_data.playerA[1], <<"A">>)
          /\ SamplesWithinBounds(playerB_sampled, game_data.playerB[1], <<"B">>)
  /\ \A r \in 1..Len(playerA_variables) :
       RowWithinBounds(playerA_variables[r], game_data.playerA[1], <<"A">>)
  /\ \A r \in 1..Len(playerB_variables) :
       RowWithinBounds(playerB_variables[r], game_data.playerB[1], <<"B">>)

\* Player A's sample 5.0 lay above the max 4 and was kept as 4.0.
C7_Witness ==
  /\ pc = "sampleA"
  /\ j >= 0
  /\ sampled_val = PyFloat(5)
  /\ max_val = PyFloat(4)
  /\ clamped_val = PyFloat(4)
  /\ playerA_sampled = <<Item(id_v1 \o <<"_", "A">>, PyFloat(4))>>

(***************************************************************************)
(* Properties of evaluate_formula (checked under EvalSpec)                 *)
(***************************************************************************)

\* The characters an arithmetic expression may hold: digits, the four
\* operators, parentheses, the decimal point and the space.
ArithmeticChars ==
  {DigitChars[k] : k \in 1..10} \cup {"+", "-", "*", "/", "(", ")", ".", " "}

OnlyArithmeticChars(s) == \A k \in 1..Len(s) : s[k] \in ArithmeticChars

\* Both substitution loops run to their end on the call's arguments.
SubstitutionCompletes ==
  ReplaceValues(ReplaceWeights(formula, variables_data), sampled_values, formula,
                player_suffix, variables_data).ok

\* The exception the call raised reports invalid characters.
IsInvalidExpression(r) ==
  /\ ~r.ok
  /\ Len(r.exc.msg) >= 4
  /\ r.exc.msg[4] = "Formula contains invalid characters: "

\* The exception the call raised reports a division by zero.
IsDivisionError(r) ==
  /\ ~r.ok
  /\ Len(r.exc.msg) >= 4
  /\ r.exc.msg[4] \in {"float division by zero", "division by zero"}

\* The sampled items that carry the requested player tag.
TaggedItems ==
  {k \in 1..Len(sampled_values) : EndsWith(sampled_values[k].key, <<"_">> \o player_suffix)}

BaseVar(k) == Replace(sampled_values[k].key, <<"_">> \o player_suffix, <<>>)

\* C5: eval() is only ever reached with a string made of digits, + - * /,
\* parentheses, the decimal point and the space; when the string left by the
\* substitutions holds any other character the call raises the
\* invalid-characters error and eval() has not been called.
C5_OnlyArithmeticEvaluated ==
  /\ (epc = "eval" \/ eval_calls > 0) => OnlyArithmeticChars(eval_formula)
  /\ (epc = "done" /\ SubstitutionCompletes /\ ~OnlyArithmeticChars(eval_formula))
       => (IsInvalidExpression(result) /\ eval_calls = 0)

\* A call whose formula names a variable that was not sampled has ended in
\* the invalid-characters error without reaching eval().
C5_Witness ==
  /\ epc = "done"
  /\ formula = id_v1 \o txt_Val \o <<"+">> \o id_v3 \o txt_Val
  /\ SubstitutionCompletes
  /\ Contains(eval_formula, id_v3)
  /\ IsInvalidExpression(result)
  /\ eval_calls = 0

\* Some sampled variable of the requested player is standardized by the
\* formula and declared with min = max.
DegenerateCall ==
  \E k \in TaggedItems :
    /\ NeedsStandardization(formula, BaseVar(k))
    /\ \E v \in 1..Len(variables_data) :
         /\ variables_data[v].variableNumber = BaseVar(k)
         /\ NumEq(variables_data[v].min, variables_data[v].max)

\* C6: standardizing a variable declared with min = max fails with an error
\* classified DegenerateBounds, not with a division error.
C6_DegenerateBoundsClassified ==
  (epc = "done" /\ DegenerateCall)
    => (~result.ok /\ result.exc.type = "DegenerateBounds" /\ ~IsDivisionError(result))

\* The formula is the standardization token of the first declared variable,
\* alone or multiplied by its weight token, in a spelling the code looks for.
StndTokens(name) == {name \o txt_stnd, name \o txt_Stnd, Lower(name) \o txt_stnd}

StandardizedAlone ==
  /\ formula \in StndTokens(variables_data[1].variableNumber)
  /\ NumLt(variables_data[1].min, variables_data[1].max)

StandardizedWeighted ==
  /\ \E t \in StndTokens(variables_data[1].variableNumber) :
       formula = variables_data[1].variableNumber \o txt_weight \o <<"*">> \o t
  /\ NumLt(variables_data[1].min, variables_data[1].max)

NegativeSpellings ==
  { txt_negative,
    <<"N", "e", "g", "a", "t", "i", "v", "e">>,
    <<"N", "E", "G", "A", "T", "I", "V", "E">> }

\* The sampled value of the first variable under the requested tag (the
\* bounds and samples of the model are whole numbers).
SampleOfFirst ==
  LET k == CHOOSE k \in TaggedItems : BaseVar(k) = variables_data[1].variableNumber
  IN  sampled_values[k].value.n

\* (value - min)/(max - min), or (max - value)/(max - min) for a negative
\* effect, cut to [0, 1].
ExpectedStandardized ==
  LET lo == variables_data[1].min.n
      hi == variables_data[1].max.n
      x == SampleOfFirst
      top == IF variables_data[1].desiredEffect \in NegativeSpellings
             THEN hi - x ELSE x - lo
  IN  IF top <= 0 THEN PyFloat(0)
      ELSE IF top >= hi - lo THEN PyFloat(1)
      ELSE Num(top, hi - lo, TRUE)

\* C8: with min < max the number substituted for the standardization token
\* is (value - min)/(max - min), or (max - value)/(max - min) for a negative
\* effect in any letter case, cut to [0, 1]; it lies in [0, 1], and value =
\* min gives 0 (1 for negative), value = max gives 1 (0 for negative).
C8_StandardizedValue ==
  /\ (StandardizedAlone /\ epc \in {"check", "eval"})
       => eval_formula = Str(ExpectedStandardized)
  /\ (StandardizedWeighted /\ epc \in {"check", "eval"})
       => eval_formula = Str(WeightOf(variables_data[1])) \o <<"*">>
                           \o Str(ExpectedStandardized)
  /\ (StandardizedAlone /\ epc = "done")
       => /\ result.ok
          /\ result.val = ExpectedStandardized
          /\ NumLe(PyFloat(0), result.val) /\ NumLe(result.val, PyFloat(1))
          /\ LET neg == variables_data[1].desiredEffect \in NegativeSpellings
             IN  /\ SampleOfFirst = variables_data[1].min.n
                      => result.val = PyFloat(IF neg THEN 1 ELSE 0)
                 /\ SampleOfFirst = variables_data[1].max.n
                      => result.val = PyFloat(IF neg THEN 0 ELSE 1)

\* A negative effect spelled in capitals, with a sample above max: the call
\* has returned 0.0, the cut value.
C8_Witness ==
  /\ epc = "done"
  /\ StandardizedAlone
  /\ variables_data[1].desiredEffect = <<"N", "E", "G", "A", "T", "I", "V", "E">>
  /\ SampleOfFirst > variables_data[1].max.n
  /\ result.ok
  /\ result.val = PyFloat(0)

\* C9: once both loops have run, no raw-value token (<id>_Val or the bare
\* <id>) of a sampled variable of the requested player is left in the
\* formula, and a formula holding both v1_stnd and v1_Val evaluates to a
\* number.
C9_RawTokensResolved ==
  /\ epc \in {"check", "eval"}
       => \A k \in TaggedItems : ~Contains(eval_formula, BaseVar(k))
  /\ ( /\ epc = "done"
       /\ formula = id_v1 \o txt_stnd \o <<"+">> \o id_v1 \o txt_Val
       /\ variables_data[1].variableNumber = id_v1
       /\ NumLt(variables_data[1].min, variables_data[1].max) )
       => result.ok

\* C10: once the weight loop has run, no <id>_weight token of a declared
\* variable is left in the formula in any letter case, so that the value
\* loop never meets the <id> of a weight token.
C10_WeightTokensReplaced ==
  epc \in {"values", "check", "eval"}
    => \A v \in 1..Len(variables_data) :
         ~Contains(Lower(eval_formula),
                   Lower(variables_data[v].variableNumber) \o txt_weight)

====
